---- MODULE Spec2Model ----
(***************************************************************************)
(* Model of server/socket/index.js: the socket.io connection handler, the  *)
(* presence set onlineUsers, and the event handlers 'message-page',        *)
(* 'new message', 'sidebar', 'seen' and 'disconnect'.                      *)
(*                                                                         *)
(* Every `await` of a handler is a suspension point.  A store operation    *)
(* takes effect in one step; the synchronous code that follows it (up to   *)
(* the next await) runs in the same step when it only issues the next      *)
(* operation, and in a step of its own when it emits the result of a read, *)
(* so that what is emitted may be older than the store.                    *)
(***************************************************************************)
EXTENDS Integers, Sequences, FiniteSets, TLC

VARIABLES
    cstate,       \* connection -> "new" | "auth" | "bound" | "rejected"
    copen,        \* connection -> the transport is connected
    ctoken,       \* connection -> socket.handshake.auth.token
    cuser,        \* connection -> userId of the connection closure, or "none"
    rooms,        \* identity -> connections that joined the room of that id
    onlineUsers,  \* the Set, in insertion order (Array.from keeps that order)
    convs,        \* Conversation collection, in insertion (natural) order
    msgs,         \* Message collection; a message's _id is its index
    clock,        \* source of updatedAt timestamps
    hs,           \* event handlers started so far, with their locals
    log           \* every emission, in emission order

vars == <<cstate, copen, ctoken, cuser, rooms, onlineUsers, convs, msgs, clock, hs, log>>

connVars == <<cstate, copen, ctoken, cuser, rooms, onlineUsers>>
storeVars == <<convs, msgs, clock>>

\* ------------------------------------------------------------------ bounds

MaxConns == 2           \* connections of SpecAuth
MaxPageHandlers == 1    \* 'message-page' events of SpecPresence
MaxChatHandlers == 2    \* events of SpecChat
MaxSeenEvents == 2      \* events of SpecSeen after its seed
MaxReadEvents == 2      \* events after the first message, read-side run
MaxLeaveHandlers == 2   \* 'new message' events of SpecLeave

Conns == 1..MaxConns

\* Identities of the user store, and an id no user has.
Users == {"A", "B"}
NoUser == "Z"
Ids == Users \cup {NoUser}

\* Credentials: absent, rejected by the verifier (no identity), making the
\* verifier throw, or valid for a user.
NoToken == "none"
NullToken == "null"
ThrowToken == "throw"
BadTokens == {NoToken, NullToken, ThrowToken}
Tokens == BadTokens \cup Users

\* ----------------------------------------------------------------- helpers

Range(s) == {s[i] : i \in 1..Len(s)}

\* Set.prototype.add: no effect when present, else appended in insertion order.
SetAdd(s, x) == IF x \in Range(s) THEN s ELSE Append(s, x)

\* Set.prototype.delete
SetDelete(s, x) == SelectSeq(s, LAMBDA y : y # x)

\* getUserDetailsFromToken: the identity of a valid credential, NoUser for
\* "no identity returned".  (A throwing credential never reaches this.)
getUserDetailsFromToken(token) == IF token \in Users THEN token ELSE NoUser

\* Connections an emission reaches.
AllSockets(open) == {c \in Conns : open[c]}
InRoom(rm, open, id) == IF id \in DOMAIN rm THEN {c \in rm[id] : open[c]} ELSE {}

Emission(ev, kind, to, payload, h, c, rcv) ==
    [ev |-> ev, kind |-> kind, to |-> to, payload |-> payload, h |-> h, c |-> c, rcv |-> rcv]

\* io.emit(ev, payload)
IoEmit(ev, payload, c, open) ==
    Emission(ev, "all", "all", payload, 0, c, AllSockets(open))

\* io.to(room).emit(ev, payload)
RoomEmit(ev, room, payload, h) ==
    Emission(ev, "room", room, payload, h, hs[h].c, InRoom(rooms, copen, room))

\* socket.emit(ev, payload)
SocketEmit(ev, payload, h) ==
    Emission(ev, "socket", hs[h].c, payload, h, hs[h].c,
             IF copen[hs[h].c] THEN {hs[h].c} ELSE {})

\* ------------------------------------------------------------- connection

Init ==
    /\ cstate = [c \in Conns |-> "new"]
    /\ copen = [c \in Conns |-> FALSE]
    /\ ctoken = [c \in Conns |-> NoToken]
    /\ cuser = [c \in Conns |-> "none"]
    /\ rooms = [u \in Users |-> {}]
    /\ onlineUsers = <<>>
    /\ convs = <<>>
    /\ msgs = <<>>
    /\ clock = 0
    /\ hs = <<>>
    /\ log = <<>>

\* io.on('connection'), lines 25-37: a connection arrives with `token`; with
\* no token it is disconnected at once, else the verifier is awaited.
Connect(c, token) ==
    /\ cstate[c] = "new"
    /\ \A d \in Conns : d < c => cstate[d] # "new"   \* ids in arrival order
    /\ ctoken' = [ctoken EXCEPT ![c] = token]
    /\ IF token = NoToken
         THEN /\ cstate' = [cstate EXCEPT ![c] = "rejected"]
              /\ copen' = [copen EXCEPT ![c] = FALSE]
         ELSE /\ cstate' = [cstate EXCEPT ![c] = "auth"]
              /\ copen' = [copen EXCEPT ![c] = TRUE]
    /\ UNCHANGED <<cuser, rooms, onlineUsers, convs, msgs, clock, hs, log>>

\* The rejection without socket.disconnect(true): the handler returns and the
\* socket stays connected.
AuthReject_NoDisconnect(c) ==
    /\ cstate[c] = "auth"
    /\ \/ ctoken[c] = ThrowToken
       \/ getUserDetailsFromToken(ctoken[c]) = NoUser
    /\ cstate' = [cstate EXCEPT ![c] = "rejected"]
    /\ UNCHANGED <<copen, ctoken, cuser, rooms, onlineUsers, convs, msgs, clock, hs, log>>

\* lines 38-42 and 174-177: the verifier returned no identity, or threw.
AuthReject(c) ==
    /\ cstate[c] = "auth"
    /\ \/ ctoken[c] = ThrowToken
       \/ getUserDetailsFromToken(ctoken[c]) = NoUser
    /\ cstate' = [cstate EXCEPT ![c] = "rejected"]
    /\ copen' = [copen EXCEPT ![c] = FALSE]
    /\ UNCHANGED <<ctoken, cuser, rooms, onlineUsers, convs, msgs, clock, hs, log>>

\* lines 44-50, then the registration of the handlers (53-173): the verifier
\* returned a user.  Nothing here looks at whether the socket is still
\* connected.
AuthAccept(c) ==
    /\ cstate[c] = "auth"
    /\ ctoken[c] # ThrowToken
    /\ getUserDetailsFromToken(ctoken[c]) # NoUser
    /\ LET userId == getUserDetailsFromToken(ctoken[c])
           online == SetAdd(onlineUsers, userId)
       IN  /\ cuser' = [cuser EXCEPT ![c] = userId]
           /\ rooms' = [rooms EXCEPT ![userId] = @ \cup {c}]
           /\ onlineUsers' = online
           /\ log' = Append(log, IoEmit("onlineUser", online, c, copen))
    /\ cstate' = [cstate EXCEPT ![c] = "bound"]
    /\ UNCHANGED <<copen, ctoken, convs, msgs, clock, hs>>

\* The transport closes while the verifier is awaited: no 'disconnect'
\* handler is registered yet (line 169 is not reached), so nothing runs.
CloseDuringAuth(c) ==
    /\ cstate[c] = "auth"
    /\ copen[c]
    /\ copen' = [copen EXCEPT ![c] = FALSE]
    /\ UNCHANGED <<cstate, ctoken, cuser, rooms, onlineUsers, convs, msgs, clock, hs, log>>

\* socket.on('disconnect') with line 170 missing: the set is broadcast as it was.
Disconnect_NoDelete(c) ==
    /\ cstate[c] = "bound"
    /\ copen[c]
    /\ copen' = [copen EXCEPT ![c] = FALSE]
    /\ rooms' = [u \in Users |-> rooms[u] \ {c}]
    /\ log' = Append(log, IoEmit("onlineUser", onlineUsers, c, copen'))
    /\ UNCHANGED <<cstate, ctoken, cuser, onlineUsers, convs, msgs, clock, hs>>

\* socket.on('disconnect') with lines 170 and 171 swapped: the broadcast
\* carries the set as it was before the delete.
Disconnect_EmitBeforeDelete(c) ==
    /\ cstate[c] = "bound"
    /\ copen[c]
    /\ copen' = [copen EXCEPT ![c] = FALSE]
    /\ rooms' = [u \in Users |-> rooms[u] \ {c}]
    /\ onlineUsers' = SetDelete(onlineUsers, cuser[c])
    /\ log' = Append(log, IoEmit("onlineUser", onlineUsers, c, copen'))
    /\ UNCHANGED <<cstate, ctoken, cuser, convs, msgs, clock, hs>>

\* socket.on('disconnect'), lines 169-173.  socket.io has left the rooms and
\* marked the socket disconnected before the handler runs.
Disconnect(c) ==
    /\ cstate[c] = "bound"
    /\ copen[c]
    /\ LET open == [copen EXCEPT ![c] = FALSE]
           online == SetDelete(onlineUsers, cuser[c])
       IN  /\ copen' = open
           /\ rooms' = [u \in Users |-> rooms[u] \ {c}]
           /\ onlineUsers' = online
           /\ log' = Append(log, IoEmit("onlineUser", online, c, open))
    /\ UNCHANGED <<cstate, ctoken, cuser, convs, msgs, clock, hs>>

\* ------------------------------------------------------------------ store

\* The $or filter of lines 68-71, 86-89 and 146-149.
MatchPair(cv, a, b) ==
    \/ cv.sender = a /\ cv.receiver = b
    \/ cv.sender = b /\ cv.receiver = a

Matching(a, b) == {i \in 1..Len(convs) : MatchPair(convs[i], a, b)}

\* ConversationModel.findOne(filter): the first match in natural order, 0 for null.
FindOne(a, b) ==
    IF Matching(a, b) = {} THEN 0
    ELSE CHOOSE i \in Matching(a, b) : \A j \in Matching(a, b) : i <= j

\* ConversationModel.findOne(filter).sort({updatedAt: -1}): the match updated last.
FindOneLatest(a, b) ==
    IF Matching(a, b) = {} THEN 0
    ELSE CHOOSE i \in Matching(a, b) :
            \A j \in Matching(a, b) : convs[j].updatedAt <= convs[i].updatedAt

\* ConversationModel document.save() of a new conversation (models/
\* ConversationModel): a plain insert, stamped with updatedAt; the collection
\* has no uniqueness constraint on the participant pair.
InsertConversation(cs, sender, receiver, t) ==
    Append(cs, [sender |-> sender, receiver |-> receiver, messages |-> <<>>, updatedAt |-> t])

\* The update of lines 109-111 as a $push with $position 0: the new id is
\* put at the front of the list.
PushMessage_Front(cs, i, m, t) ==
    [cs EXCEPT ![i].messages = <<m>> \o @, ![i].updatedAt = t]

\* findByIdAndUpdate(id, {$push: {messages: m}}): an atomic append, which
\* also stamps updatedAt.
PushMessage(cs, i, m, t) ==
    [cs EXCEPT ![i].messages = Append(@, m), ![i].updatedAt = t]

\* populate('messages'): the documents of a list of message ids.
Populate(ids) ==
    [k \in 1..Len(ids) |-> [id |-> ids[k], by |-> msgs[ids[k]].by, seen |-> msgs[ids[k]].seen]]

\* conversation?.messages || []  of a populated conversation
MessagesOf(i) == IF i = 0 THEN <<>> ELSE Populate(convs[i].messages)

\* updateMany without the msgByUserId condition: every listed message is marked.
UpdateManySeen_AnyAuthor(ms, ids, by) ==
    [k \in 1..Len(ms) |->
        IF k \in Range(ids) THEN [ms[k] EXCEPT !.seen = TRUE] ELSE ms[k]]

\* MessageModel.updateMany({_id: {$in: ids}, msgByUserId: by}, {$set: {seen: true}})
UpdateManySeen(ms, ids, by) ==
    [k \in 1..Len(ms) |->
        IF k \in Range(ids) /\ ms[k].by = by THEN [ms[k] EXCEPT !.seen = TRUE] ELSE ms[k]]

\* Conversations involving an identity, most recently updated first.
RECURSIVE SortByUpdated(_)
SortByUpdated(S) ==
    IF S = {} THEN <<>>
    ELSE LET i == CHOOSE x \in S : \A y \in S : convs[y].updatedAt <= convs[x].updatedAt
         IN  <<i>> \o SortByUpdated(S \ {i})

Summary(i, id) ==
    LET peer == IF convs[i].sender = id THEN convs[i].receiver ELSE convs[i].sender
        n == Len(convs[i].messages)
    IN  [conv |-> i, peer |-> peer, online |-> peer \in Range(onlineUsers),
         lastMsg |-> IF n = 0 THEN 0 ELSE convs[i].messages[n]]

\* getConversation(id) (helpers/getConversation): the summaries of an identity.
getConversation(id) ==
    LET order == SortByUpdated({i \in 1..Len(convs) :
                                  convs[i].sender = id \/ convs[i].receiver = id})
    IN  [k \in 1..Len(order) |-> Summary(order[k], id)]

\* --------------------------------------------------------------- handlers

Handler(kind, c, pc, target, sender, receiver, by) ==
    [kind |-> kind, c |-> c, userId |-> cuser[c], pc |-> pc, target |-> target,
     sender |-> sender, receiver |-> receiver, by |-> by,
     with |-> {x \in 1..Len(hs) : hs[x].pc \notin {"done", "failed"}},
     conv |-> 0, ids |-> <<>>, msg |-> 0, res |-> <<>>, sumS |-> <<>>, sumR |-> <<>>,
     at |-> 0, changed |-> 0]

\* A registered handler that is invoked for events of a closed socket as well.
Receives_AnyBound(c) == cstate[c] = "bound"

\* An inbound event reaches a registered handler only on a connected socket.
Receives(c) == cstate[c] = "bound" /\ copen[c]

At(h, kind, pc) == h \in 1..Len(hs) /\ hs[h].kind = kind /\ hs[h].pc = pc

InFlight == {h \in 1..Len(hs) : hs[h].pc \notin {"done", "failed"}}

\* The locals of a finished handler are dead.
Finish(r, pc) == [r EXCEPT !.pc = pc, !.ids = <<>>, !.res = <<>>, !.sumS = <<>>, !.sumR = <<>>]

\* ---- 'message-page', lines 53-80

StartMessagePage(c, targetUserId) ==
    /\ Receives(c)
    /\ hs' = Append(hs, Handler("page", c, "findUser", targetUserId, "none", "none", "none"))
    /\ UNCHANGED <<connVars, storeVars, log>>

\* lines 55-65 and the issue of 67: the user lookup resolves.
PageUser(h) ==
    /\ At(h, "page", "findUser")
    /\ IF hs[h].target \notin Users
         THEN /\ hs' = [hs EXCEPT ![h] = Finish(@, "done")]
              /\ log' = log
         ELSE /\ hs' = [hs EXCEPT ![h].pc = "findConv"]
              /\ log' = Append(log, SocketEmit("message-user",
                            [id |-> hs[h].target,
                             online |-> hs[h].target \in Range(onlineUsers)], h))
    /\ UNCHANGED <<connVars, storeVars>>

\* lines 67-74: the store answers the conversation query.
PageFind(h) ==
    /\ At(h, "page", "findConv")
    /\ hs' = [hs EXCEPT ![h].pc = "emit",
                        ![h].conv = FindOneLatest(hs[h].userId, hs[h].target),
                        ![h].res = MessagesOf(FindOneLatest(hs[h].userId, hs[h].target))]
    /\ UNCHANGED <<connVars, storeVars, log>>

\* line 76 as a fan-out to the requester's room instead of the socket.
PageEmit_ToRoom(h) ==
    /\ At(h, "page", "emit")
    /\ log' = Append(log, RoomEmit("message", hs[h].userId, hs[h].res, h))
    /\ hs' = [hs EXCEPT ![h] = Finish(@, "done")]
    /\ UNCHANGED <<connVars, storeVars>>

\* line 76
PageEmit(h) ==
    /\ At(h, "page", "emit")
    /\ log' = Append(log, SocketEmit("message", hs[h].res, h))
    /\ hs' = [hs EXCEPT ![h] = Finish(@, "done")]
    /\ UNCHANGED <<connVars, storeVars>>

\* ---- 'new message', lines 83-130

StartNewMessage(c, sender, receiver, by) ==
    /\ Receives(c)
    /\ hs' = Append(hs, Handler("newmsg", c, "find", "none", sender, receiver, by))
    /\ UNCHANGED <<connVars, storeVars, log>>

\* lines 85-93: the store answers findOne; the handler goes on to create the
\* conversation when there is none.
NewMsgFind(h) ==
    /\ At(h, "newmsg", "find")
    /\ LET i == FindOne(hs[h].sender, hs[h].receiver)
       IN  hs' = [hs EXCEPT ![h].conv = i, ![h].pc = IF i = 0 THEN "create" ELSE "save"]
    /\ UNCHANGED <<connVars, storeVars, log>>

\* lines 94-98: newConversation.save()
NewMsgCreate(h) ==
    /\ At(h, "newmsg", "create")
    /\ convs' = InsertConversation(convs, hs[h].sender, hs[h].receiver, clock + 1)
    /\ clock' = clock + 1
    /\ hs' = [hs EXCEPT ![h].conv = Len(convs) + 1, ![h].pc = "save"]
    /\ UNCHANGED <<connVars, msgs, log>>

\* lines 101-107: message.save()
NewMsgSave(h) ==
    /\ At(h, "newmsg", "save")
    /\ msgs' = Append(msgs, [by |-> hs[h].by, seen |-> FALSE])
    /\ hs' = [hs EXCEPT ![h].msg = Len(msgs) + 1, ![h].pc = "push"]
    /\ UNCHANGED <<connVars, convs, clock, log>>

\* lines 109-111: findByIdAndUpdate(conversation._id, {$push: {messages: message._id}})
NewMsgPush(h) ==
    /\ At(h, "newmsg", "push")
    /\ convs' = PushMessage(convs, hs[h].conv, hs[h].msg, clock + 1)
    /\ clock' = clock + 1
    /\ hs' = [hs EXCEPT ![h].pc = "reread"]
    /\ UNCHANGED <<connVars, msgs, log>>

\* lines 113-115: findById(conversation._id).populate('messages')
NewMsgReread(h) ==
    /\ At(h, "newmsg", "reread")
    /\ hs' = [hs EXCEPT ![h].res = MessagesOf(hs[h].conv), ![h].pc = "emitMsg"]
    /\ UNCHANGED <<connVars, storeVars, log>>

\* lines 118-119 swapped: the receiver's room first.
NewMsgEmitMessage_ReceiverFirst(h) ==
    /\ At(h, "newmsg", "emitMsg")
    /\ log' = log \o << RoomEmit("message", hs[h].receiver, hs[h].res, h),
                        RoomEmit("message", hs[h].sender, hs[h].res, h) >>
    /\ hs' = [hs EXCEPT ![h].pc = "sumS"]
    /\ UNCHANGED <<connVars, storeVars>>

\* lines 118-119, and the issue of 122
NewMsgEmitMessage(h) ==
    /\ At(h, "newmsg", "emitMsg")
    /\ log' = log \o << RoomEmit("message", hs[h].sender, hs[h].res, h),
                        RoomEmit("message", hs[h].receiver, hs[h].res, h) >>
    /\ hs' = [hs EXCEPT ![h].pc = "sumS"]
    /\ UNCHANGED <<connVars, storeVars>>

\* line 122
NewMsgSumSender(h) ==
    /\ At(h, "newmsg", "sumS")
    /\ hs' = [hs EXCEPT ![h].sumS = getConversation(hs[h].sender), ![h].pc = "sumR"]
    /\ UNCHANGED <<connVars, storeVars, log>>

\* line 123
NewMsgSumReceiver(h) ==
    /\ At(h, "newmsg", "sumR")
    /\ hs' = [hs EXCEPT ![h].sumR = getConversation(hs[h].receiver), ![h].pc = "emitConv"]
    /\ UNCHANGED <<connVars, storeVars, log>>

\* lines 125-126 without line 126: the receiver's room gets no summaries.
NewMsgEmitConversation_SenderOnly(h) ==
    /\ At(h, "newmsg", "emitConv")
    /\ log' = Append(log, RoomEmit("conversation", hs[h].sender, hs[h].sumS, h))
    /\ hs' = [hs EXCEPT ![h] = Finish(@, "done")]
    /\ UNCHANGED <<connVars, storeVars>>

\* lines 125-126
NewMsgEmitConversation(h) ==
    /\ At(h, "newmsg", "emitConv")
    /\ log' = log \o << RoomEmit("conversation", hs[h].sender, hs[h].sumS, h),
                        RoomEmit("conversation", hs[h].receiver, hs[h].sumR, h) >>
    /\ hs' = [hs EXCEPT ![h] = Finish(@, "done")]
    /\ UNCHANGED <<connVars, storeVars>>

\* ---- 'sidebar', lines 133-140

StartSidebar(c, currentUserId) ==
    /\ Receives(c)
    /\ hs' = Append(hs, Handler("sidebar", c, "sum", currentUserId, "none", "none", "none"))
    /\ UNCHANGED <<connVars, storeVars, log>>

\* line 135
SidebarSum(h) ==
    /\ At(h, "sidebar", "sum")
    /\ hs' = [hs EXCEPT ![h].sumS = getConversation(hs[h].target), ![h].pc = "emit"]
    /\ UNCHANGED <<connVars, storeVars, log>>

\* line 136
SidebarEmit(h) ==
    /\ At(h, "sidebar", "emit")
    /\ log' = Append(log, SocketEmit("conversation", hs[h].sumS, h))
    /\ hs' = [hs EXCEPT ![h] = Finish(@, "done")]
    /\ UNCHANGED <<connVars, storeVars>>

\* ---- 'seen', lines 143-166

StartSeen(c, targetUserId) ==
    /\ Receives(c)
    /\ hs' = Append(hs, Handler("seen", c, "find", targetUserId, "none", "none", "none"))
    /\ UNCHANGED <<connVars, storeVars, log>>

\* lines 145-152
SeenFind(h) ==
    /\ At(h, "seen", "find")
    /\ LET i == FindOne(hs[h].userId, hs[h].target)
       IN  hs' = [hs EXCEPT ![h].conv = i,
                            ![h].ids = IF i = 0 THEN <<>> ELSE convs[i].messages,
                            ![h].at = clock,
                            ![h].pc = "update"]
    /\ UNCHANGED <<connVars, storeVars, log>>

\* lines 153-156
SeenUpdate(h) ==
    /\ At(h, "seen", "update")
    /\ msgs' = UpdateManySeen(msgs, hs[h].ids, hs[h].target)
    /\ hs' = [hs EXCEPT ![h].pc = "sumS",
                        ![h].changed = Cardinality({k \in 1..Len(msgs) : msgs'[k] # msgs[k]})]
    /\ UNCHANGED <<connVars, convs, clock, log>>

\* line 158
SeenSumViewer(h) ==
    /\ At(h, "seen", "sumS")
    /\ hs' = [hs EXCEPT ![h].sumS = getConversation(hs[h].userId), ![h].pc = "sumR"]
    /\ UNCHANGED <<connVars, storeVars, log>>

\* line 159
SeenSumPeer(h) ==
    /\ At(h, "seen", "sumR")
    /\ hs' = [hs EXCEPT ![h].sumR = getConversation(hs[h].target), ![h].pc = "emitConv"]
    /\ UNCHANGED <<connVars, storeVars, log>>

\* lines 161-162
SeenEmitConversation(h) ==
    /\ At(h, "seen", "emitConv")
    /\ log' = log \o << RoomEmit("conversation", hs[h].userId, hs[h].sumS, h),
                        RoomEmit("conversation", hs[h].target, hs[h].sumR, h) >>
    /\ hs' = [hs EXCEPT ![h] = Finish(@, "done")]
    /\ UNCHANGED <<connVars, storeVars>>

\* ---- the catch blocks, lines 77-79, 127-129, 137-139, 163-165: the store
\* call the handler is suspended in rejects; the error is logged and dropped.
StorePcs == {"findUser", "findConv", "find", "create", "save", "push", "reread",
             "sumS", "sumR", "sum", "update"}

\* The catch block as in the connection handler (lines 174-177), closing the
\* socket of the failing handler.
StoreError_Disconnects(h) ==
    /\ h \in 1..Len(hs)
    /\ hs[h].pc \in StorePcs
    /\ hs' = [hs EXCEPT ![h] = Finish(@, "failed")]
    /\ copen' = [copen EXCEPT ![hs[h].c] = FALSE]
    /\ UNCHANGED <<cstate, ctoken, cuser, rooms, onlineUsers, storeVars, log>>

StoreError(h) ==
    /\ h \in 1..Len(hs)
    /\ hs[h].pc \in StorePcs
    /\ hs' = [hs EXCEPT ![h] = Finish(@, "failed")]
    /\ UNCHANGED <<connVars, storeVars, log>>

\* -------------------------------------------------------- specifications

Failed == {h \in 1..Len(hs) : hs[h].pc = "failed"}

\* The connection lifecycle alone, with every kind of credential.
NextAuth ==
    \/ \E c \in Conns, t \in Tokens : Connect(c, t)
    \/ \E c \in Conns : AuthReject(c)
    \/ \E c \in Conns : AuthAccept(c)
    \/ \E c \in Conns : CloseDuringAuth(c)
    \/ \E c \in Conns : Disconnect(c)

SpecAuth == Init /\ [][NextAuth]_vars

\* Two connections, with every kind of credential, and their 'message-page'
\* requests.
PresenceConns == {1, 2}

NextPresence ==
    \/ \E c \in PresenceConns, t \in Tokens : Connect(c, t)
    \/ \E c \in PresenceConns : AuthReject(c)
    \/ \E c \in PresenceConns : AuthAccept(c)
    \/ \E c \in PresenceConns : CloseDuringAuth(c)
    \/ \E c \in PresenceConns : Disconnect(c)
    \/ \E c \in PresenceConns, t \in Ids :
          Len(hs) < MaxPageHandlers /\ StartMessagePage(c, t)
    \/ \E h \in 1..MaxPageHandlers : PageUser(h)
    \/ \E h \in 1..MaxPageHandlers : PageFind(h)
    \/ \E h \in 1..MaxPageHandlers : PageEmit(h)
    \/ \E h \in 1..MaxPageHandlers : StoreError(h)

SpecPresence == Init /\ [][NextPresence]_vars

\* Two sessions, of A and of B, after their handshakes (connection 1 was
\* bound first): the state SpecAuth reaches by Connect(1, "A"), AuthAccept(1),
\* Connect(2, "B"), AuthAccept(2).
InitChat ==
    /\ cstate = [c \in Conns |-> IF c \in {1, 2} THEN "bound" ELSE "new"]
    /\ copen = [c \in Conns |-> c \in {1, 2}]
    /\ ctoken = [c \in Conns |-> IF c = 1 THEN "A" ELSE IF c = 2 THEN "B" ELSE NoToken]
    /\ cuser = [c \in Conns |-> IF c = 1 THEN "A" ELSE IF c = 2 THEN "B" ELSE "none"]
    /\ rooms = [u \in Users |-> IF u = "A" THEN {1} ELSE {2}]
    /\ onlineUsers = <<"A", "B">>
    /\ convs = <<>>
    /\ msgs = <<>>
    /\ clock = 0
    /\ hs = <<>>
    /\ log = << Emission("onlineUser", "all", "all", <<"A">>, 0, 1, {1}),
                Emission("onlineUser", "all", "all", <<"A", "B">>, 0, 2, {1, 2}) >>

\* A handler starts while at most one other is in flight.
Pairwise == \A x, y \in InFlight : x = y

\* The two sessions send each other messages and mark them seen: up to
\* MaxChatHandlers events, two of them in flight at a time, at most one
\* 'seen' and at most one store error in a run.
NextChat ==
    \/ \E c \in Conns : \E r \in Users \ {cuser[c]} :
          /\ Len(hs) < MaxChatHandlers /\ Pairwise
          /\ StartNewMessage(c, cuser[c], r, cuser[c])
    \/ \E c \in Conns : \E t \in Users \ {cuser[c]} :
          /\ Len(hs) < MaxChatHandlers /\ Pairwise
          /\ \A h \in 1..Len(hs) : hs[h].kind # "seen"
          /\ StartSeen(c, t)
    \/ \E h \in 1..MaxChatHandlers : NewMsgFind(h)
    \/ \E h \in 1..MaxChatHandlers : NewMsgCreate(h)
    \/ \E h \in 1..MaxChatHandlers : NewMsgSave(h)
    \/ \E h \in 1..MaxChatHandlers : NewMsgPush(h)
    \/ \E h \in 1..MaxChatHandlers : NewMsgReread(h)
    \/ \E h \in 1..MaxChatHandlers : NewMsgEmitMessage(h)
    \/ \E h \in 1..MaxChatHandlers : NewMsgSumSender(h)
    \/ \E h \in 1..MaxChatHandlers : NewMsgSumReceiver(h)
    \/ \E h \in 1..MaxChatHandlers : NewMsgEmitConversation(h)
    \/ \E h \in 1..MaxChatHandlers : SeenFind(h)
    \/ \E h \in 1..MaxChatHandlers : SeenUpdate(h)
    \/ \E h \in 1..MaxChatHandlers : SeenSumViewer(h)
    \/ \E h \in 1..MaxChatHandlers : SeenSumPeer(h)
    \/ \E h \in 1..MaxChatHandlers : SeenEmitConversation(h)
    \/ \E h \in 1..MaxChatHandlers : Failed = {} /\ StoreError(h)

SpecChat == InitChat /\ [][NextChat]_vars

\* A pending store call is answered and the continuation of the handler runs:
\* a handler that can go on without a store error eventually takes a step.
Progress(h) ==
    \/ NewMsgFind(h) \/ NewMsgCreate(h) \/ NewMsgSave(h) \/ NewMsgPush(h)
    \/ NewMsgReread(h) \/ NewMsgEmitMessage(h) \/ NewMsgSumSender(h)
    \/ NewMsgSumReceiver(h) \/ NewMsgEmitConversation(h)
    \/ SeenFind(h) \/ SeenUpdate(h) \/ SeenSumViewer(h) \/ SeenSumPeer(h)
    \/ SeenEmitConversation(h)

SpecChatLive == SpecChat /\ \A h \in 1..MaxChatHandlers : WF_vars(Progress(h))

\* The store SpecSeen starts its events on: A and B have exchanged a message
\* each and B has sent one to itself, these three events handled one after
\* the other without error.
SeedEvents == << [c |-> 1, r |-> "B"], [c |-> 2, r |-> "A"], [c |-> 2, r |-> "B"] >>
Seeded == Len(SeedEvents)
SeenHandlers == 1..(Seeded + MaxSeenEvents)

Handlers == 1..Len(hs)

\* A further event may start: the seed is done, fewer than MaxSeenEvents
\* events followed it, and at most one handler is in flight.
AfterSeed ==
    /\ Len(hs) >= Seeded /\ Len(hs) < Seeded + MaxSeenEvents
    /\ \A h \in 1..Seeded : hs[h].pc = "done"
    /\ Pairwise

\* After the seed, up to MaxSeenEvents 'seen' and 'new message' events of the
\* two sessions for any user, at most one of them a 'new message', two
\* handlers in flight at a time, at most one store error.
NextSeen ==
    \/ \E c \in Conns, r \in Users :
          /\ Len(hs) < Seeded /\ InFlight = {}
          /\ c = SeedEvents[Len(hs) + 1].c /\ r = SeedEvents[Len(hs) + 1].r
          /\ StartNewMessage(c, cuser[c], r, cuser[c])
    \/ \E c \in Conns, r \in Users :
          /\ AfterSeed
          /\ \A h \in Handlers : h > Seeded => hs[h].kind # "newmsg"
          /\ StartNewMessage(c, cuser[c], r, cuser[c])
    \/ \E c \in Conns, t \in Users :
          /\ AfterSeed
          /\ StartSeen(c, t)
    \/ \E h \in SeenHandlers : NewMsgFind(h)
    \/ \E h \in SeenHandlers : NewMsgCreate(h)
    \/ \E h \in SeenHandlers : NewMsgSave(h)
    \/ \E h \in SeenHandlers : NewMsgPush(h)
    \/ \E h \in SeenHandlers : NewMsgReread(h)
    \/ \E h \in SeenHandlers : NewMsgEmitMessage(h)
    \/ \E h \in SeenHandlers : NewMsgSumSender(h)
    \/ \E h \in SeenHandlers : NewMsgSumReceiver(h)
    \/ \E h \in SeenHandlers : NewMsgEmitConversation(h)
    \/ \E h \in SeenHandlers : SeenFind(h)
    \/ \E h \in SeenHandlers : SeenUpdate(h)
    \/ \E h \in SeenHandlers : SeenSumViewer(h)
    \/ \E h \in SeenHandlers : SeenSumPeer(h)
    \/ \E h \in SeenHandlers : SeenEmitConversation(h)
    \/ \E h \in SeenHandlers : h > Seeded /\ Failed = {} /\ StoreError(h)

SpecSeen == InitChat /\ [][NextSeen]_vars

\* The read-side events, 'message-page', 'sidebar' and 'seen', among the two
\* bound sessions after B has sent one message to itself: A and B have no
\* conversation with each other until a 'new message' creates one.
ReadHandlers == 1..(1 + MaxReadEvents)

\* A further event may start: B's message to itself is handled, fewer than
\* MaxReadEvents events followed it, and at most one handler is in flight.
AfterOwnMessage ==
    /\ Len(hs) >= 1 /\ Len(hs) < 1 + MaxReadEvents
    /\ hs[1].pc = "done"
    /\ Pairwise

NextRead ==
    \/ /\ Len(hs) = 0
       /\ StartNewMessage(2, cuser[2], cuser[2], cuser[2])
    \/ \E c \in Conns, r \in Users :
          /\ AfterOwnMessage
          /\ \A h \in Handlers : h > 1 => hs[h].kind # "newmsg"
          /\ StartNewMessage(c, cuser[c], r, cuser[c])
    \/ \E c \in Conns, t \in Ids : AfterOwnMessage /\ StartMessagePage(c, t)
    \/ \E c \in Conns, id \in Users : AfterOwnMessage /\ StartSidebar(c, id)
    \/ \E c \in Conns, t \in Users : AfterOwnMessage /\ StartSeen(c, t)
    \/ \E h \in ReadHandlers : NewMsgFind(h)
    \/ \E h \in ReadHandlers : NewMsgCreate(h)
    \/ \E h \in ReadHandlers : NewMsgSave(h)
    \/ \E h \in ReadHandlers : NewMsgPush(h)
    \/ \E h \in ReadHandlers : NewMsgReread(h)
    \/ \E h \in ReadHandlers : NewMsgEmitMessage(h)
    \/ \E h \in ReadHandlers : NewMsgSumSender(h)
    \/ \E h \in ReadHandlers : NewMsgSumReceiver(h)
    \/ \E h \in ReadHandlers : NewMsgEmitConversation(h)
    \/ \E h \in ReadHandlers : PageUser(h)
    \/ \E h \in ReadHandlers : PageFind(h)
    \/ \E h \in ReadHandlers : PageEmit(h)
    \/ \E h \in ReadHandlers : SidebarSum(h)
    \/ \E h \in ReadHandlers : SidebarEmit(h)
    \/ \E h \in ReadHandlers : SeenFind(h)
    \/ \E h \in ReadHandlers : SeenUpdate(h)
    \/ \E h \in ReadHandlers : SeenSumViewer(h)
    \/ \E h \in ReadHandlers : SeenSumPeer(h)
    \/ \E h \in ReadHandlers : SeenEmitConversation(h)
    \/ \E h \in ReadHandlers : h > 1 /\ Failed = {} /\ StoreError(h)

SpecRead == InitChat /\ [][NextRead]_vars

\* The two bound sessions send 'new message' events to each other, one
\* handler in flight at a time, and may disconnect at any moment, also while
\* a handler of theirs is in flight.
LeaveHandlers == 1..MaxLeaveHandlers

NextLeave ==
    \/ \E c \in PresenceConns : \E r \in Users \ {cuser[c]} :
          /\ Len(hs) < MaxLeaveHandlers /\ InFlight = {}
          /\ StartNewMessage(c, cuser[c], r, cuser[c])
    \/ \E c \in PresenceConns : Disconnect(c)
    \/ \E h \in LeaveHandlers : NewMsgFind(h)
    \/ \E h \in LeaveHandlers : NewMsgCreate(h)
    \/ \E h \in LeaveHandlers : NewMsgSave(h)
    \/ \E h \in LeaveHandlers : NewMsgPush(h)
    \/ \E h \in LeaveHandlers : NewMsgReread(h)
    \/ \E h \in LeaveHandlers : NewMsgEmitMessage(h)
    \/ \E h \in LeaveHandlers : NewMsgSumSender(h)
    \/ \E h \in LeaveHandlers : NewMsgSumReceiver(h)
    \/ \E h \in LeaveHandlers : NewMsgEmitConversation(h)
    \/ \E h \in LeaveHandlers : Failed = {} /\ StoreError(h)

SpecLeave == InitChat /\ [][NextLeave]_vars

\* The store answers every pending call of a handler, whether or not the
\* handler's socket is still open.
SpecLeaveLive == SpecLeave /\ \A h \in LeaveHandlers : WF_vars(Progress(h))

\* ------------------------------------------------------------------ claims

LogIdx == 1..Len(log)
EmittedBy(h) == {i \in LogIdx : log[i].h = h}
SamePair(a, b) == MatchPair([sender |-> hs[a].sender, receiver |-> hs[a].receiver],
                            hs[b].sender, hs[b].receiver)
MessageIds(page) == {page[k].id : k \in 1..Len(page)}

\* C1: in every reachable state at most one Conversation exists per
\* unordered participant pair, whatever the interleaving of 'new message'
\* handlers.
C1_OneConversationPerPair ==
    \A i, j \in 1..Len(convs) :
        MatchPair(convs[i], convs[j].sender, convs[j].receiver) => i = j

\* C2: two 'new message' handlers of the same unordered pair that ran
\* concurrently and both completed leave exactly one Conversation of the
\* pair, and the 'message-page' lookup of the pair returns both messages
\* (exactly those two when they are the only events).
C2_ConcurrentSendsShareOneConversation ==
    \A a, b \in Handlers :
        ( /\ a \in hs[b].with
          /\ hs[a].kind = "newmsg" /\ hs[b].kind = "newmsg"
          /\ hs[a].pc = "done" /\ hs[b].pc = "done"
          /\ SamePair(a, b) )
        => LET page == MessagesOf(FindOneLatest(hs[a].sender, hs[a].receiver))
           IN  /\ Cardinality(Matching(hs[a].sender, hs[a].receiver)) = 1
               /\ {hs[a].msg, hs[b].msg} \subseteq MessageIds(page)
               /\ Len(hs) = 2 => Len(page) = 2

\* Identities with an open, bound session.
BoundIdentities == {cuser[c] : c \in {d \in Conns : cstate[d] = "bound" /\ copen[d]}}

\* C3: in every reachable state onlineUsers holds exactly the identities that
\* have an open, bound session, each once.
C3_PresenceEqualsBoundSessions ==
    /\ Range(onlineUsers) = BoundIdentities
    /\ Cardinality(Range(onlineUsers)) = Len(onlineUsers)

\* What a connection with a bad credential never has.
NoPartialSession(c) ==
    /\ cstate[c] # "bound"
    /\ cuser[c] = "none"
    /\ \A u \in Users : c \notin rooms[u]
    /\ \A i \in LogIdx : log[i].c # c
    /\ cstate[c] = "rejected" => ~copen[c]

\* C4: a connection whose credential is missing, rejected by the verifier or
\* makes the verifier throw is closed by its connection handler and never has
\* a session: it joins no room, registers no handler, broadcasts no
\* 'onlineUser', and no step of it changes the presence set.
C4_BadCredentialNoSession ==
    /\ [](\A c \in Conns : (cstate[c] # "new" /\ ctoken[c] \in BadTokens) => NoPartialSession(c))
    /\ [][\A c \in Conns :
            (cstate'[c] # cstate[c] /\ ctoken'[c] \in BadTokens)
            => (onlineUsers' = onlineUsers /\ cstate'[c] \in {"auth", "rejected"})]_vars

C4_Witness ==
    \E c, d \in Conns :
        /\ ctoken[c] = ThrowToken /\ cstate[c] = "rejected"
        /\ ctoken[d] = NullToken /\ cstate[d] = "rejected"

\* C5: a 'new message' handler emits only after its message is saved and
\* appended to its conversation, and each of its emissions to the receiver's
\* room comes after its emission of the same event to the sender's room.
C5_PersistThenSenderBeforeReceiver ==
    \A i \in LogIdx :
        (log[i].h # 0 /\ hs[log[i].h].kind = "newmsg") =>
            LET h == log[i].h
            IN  /\ hs[h].msg \in 1..Len(msgs)
                /\ hs[h].conv \in 1..Len(convs)
                /\ hs[h].msg \in Range(convs[hs[h].conv].messages)
                /\ log[i].to = hs[h].receiver =>
                      \E j \in 1..(i - 1) :
                          /\ log[j].h = h /\ log[j].ev = log[i].ev
                          /\ log[j].to = hs[h].sender

C5_Witness ==
    \E h \in Handlers :
        /\ hs[h].kind = "newmsg" /\ hs[h].pc = "done"
        /\ hs[h].sender # hs[h].receiver
        /\ Cardinality(EmittedBy(h)) = 4

\* C6: a 'new message' or 'seen' handler in which a store operation failed
\* has emitted nothing.
C6_FailureEmitsNothing ==
    \A h \in Handlers :
        (hs[h].kind \in {"newmsg", "seen"} /\ hs[h].pc = "failed") => EmittedBy(h) = {}

\* The 'onlineUser' broadcasts of a connection's own code: the first is the
\* one of line 50, a second one is the one of its 'disconnect' handler.
PresenceBy(c) == {i \in LogIdx : log[i].ev = "onlineUser" /\ log[i].c = c}
IsLeave(i) == \E j \in PresenceBy(log[i].c) : j < i

\* The last 'onlineUser' broadcast before emission j made by a connection of
\* identity id, 0 when there is none.
LastPresenceOf(id, j) ==
    LET K == {k \in 1..(j - 1) : log[k].ev = "onlineUser" /\ cuser[log[k].c] = id}
    IN  IF K = {} THEN 0 ELSE CHOOSE k \in K : \A x \in K : x <= k

\* C9: the 'onlineUser' broadcast of a disconnect does not contain the
\* identity of the session that left and is not sent to it, and a
\* 'message-user' emitted for that identity afterwards, before any connection
\* of it binds again, says online = false.
C9_LeaveBroadcastAndOfflineFlag ==
    /\ \A i \in LogIdx :
          (log[i].ev = "onlineUser" /\ IsLeave(i)) =>
              /\ cuser[log[i].c] \notin Range(log[i].payload)
              /\ log[i].c \notin log[i].rcv
    /\ \A j \in LogIdx :
          log[j].ev = "message-user" =>
              LET k == LastPresenceOf(log[j].payload.id, j)
              IN  (k # 0 /\ IsLeave(k)) => log[j].payload.online = FALSE

C9_Witness ==
    \E j \in LogIdx :
        /\ log[j].ev = "message-user"
        /\ log[j].payload.id = "B" /\ cuser[log[j].c] = "A"
        /\ log[j].rcv = {log[j].c}
        /\ LastPresenceOf("B", j) # 0 /\ IsLeave(LastPresenceOf("B", j))
        /\ log[j].payload.online = FALSE

EventsOf(h) ==
    LET own == SelectSeq(log, LAMBDA e : e.h = h)
    IN  [k \in 1..Len(own) |-> own[k].ev]

ToRequesterOnly(h) ==
    \A i \in EmittedBy(h) :
        log[i].kind = "socket" /\ log[i].to = hs[h].c /\ log[i].rcv \subseteq {hs[h].c}

SeenUpdates(h) ==
    /\ h \in Handlers /\ hs[h].kind = "seen"
    /\ hs[h].pc = "update" /\ hs'[h].pc = "sumS"

\* Message k is in a conversation between a and b.
InConversationOf(k, a, b) == \E i \in Matching(a, b) : k \in Range(convs[i].messages)

\* An earlier 'seen' of the same viewer for the same peer has done its
\* updateMany, and no conversation was written since its lookup.
SeenJustBefore(h) ==
    \E g \in Handlers :
        /\ g # h /\ hs[g].kind = "seen"
        /\ hs[g].userId = hs[h].userId /\ hs[g].target = hs[h].target
        /\ hs[g].pc \in {"sumS", "sumR", "emitConv", "done"}
        /\ hs[g].at = clock

\* C7: a message changes only in the updateMany of a 'seen' handler, of
\* viewer V for peer P, and then it is a message of a V-P conversation
\* authored by P whose seen flag becomes true (so messages authored by V and
\* messages of other conversations keep their flag); and an updateMany that
\* follows the one of an earlier 'seen' of V for P, with no conversation
\* written in between, changes no message.
C7_SeenMarksOnlyPeerMessages ==
    [][ /\ Len(msgs') >= Len(msgs)
        /\ \A k \in 1..Len(msgs) :
              msgs'[k] # msgs[k] =>
                  \E h \in Handlers :
                      /\ SeenUpdates(h)
                      /\ InConversationOf(k, hs[h].userId, hs[h].target)
                      /\ msgs[k].by = hs[h].target
                      /\ msgs'[k] = [msgs[k] EXCEPT !.seen = TRUE]
        /\ \A h \in Handlers :
              (SeenUpdates(h) /\ SeenJustBefore(h)) => msgs' = msgs ]_vars

\* A's first 'seen' for B marked B's message of the A-B conversation, a second
\* one started after the first had finished marked nothing, and A's own
\* message and B's message to itself are still unseen.
C7_Witness ==
    \E g, h \in Handlers :
        /\ g < h /\ g \notin hs[h].with
        /\ hs[g].kind = "seen" /\ hs[h].kind = "seen"
        /\ hs[g].userId = "A" /\ hs[g].target = "B" /\ hs[g].pc = "done"
        /\ hs[h].userId = "A" /\ hs[h].target = "B" /\ hs[h].pc = "done"
        /\ hs[g].changed = 1 /\ hs[h].changed = 0
        /\ \E k \in 1..Len(msgs) :
              InConversationOf(k, "A", "B") /\ msgs[k].by = "B" /\ msgs[k].seen
        /\ \E k \in 1..Len(msgs) :
              InConversationOf(k, "A", "B") /\ msgs[k].by = "A" /\ ~msgs[k].seen
        /\ \E k \in 1..Len(msgs) :
              InConversationOf(k, "B", "B") /\ msgs[k].by = "B" /\ ~msgs[k].seen

\* A payload of summaries of identity id that includes conversation i.
SummariesOf(payload, id, i) ==
    /\ \A k \in 1..Len(payload) :
          /\ payload[k].conv \in 1..Len(convs)
          /\ id \in {convs[payload[k].conv].sender, convs[payload[k].conv].receiver}
    /\ \E k \in 1..Len(payload) : payload[k].conv = i

\* Handler h has emitted, to room id, a 'message' whose payload holds its
\* message and a 'conversation' with the summaries of id.
FannedOutTo(h, id) ==
    /\ \E i \in EmittedBy(h) :
          /\ log[i].ev = "message" /\ log[i].kind = "room" /\ log[i].to = id
          /\ hs[h].msg \in MessageIds(log[i].payload)
    /\ \E i \in EmittedBy(h) :
          /\ log[i].ev = "conversation" /\ log[i].kind = "room" /\ log[i].to = id
          /\ SummariesOf(log[i].payload, id, hs[h].conv)

\* C8: with both sessions bound, a 'new message' of one for the other in
\* which no store call fails eventually has emitted, to the sender's room and
\* to the receiver's room, a 'message' holding the new message and a
\* 'conversation' with that identity's summaries.
C8_NewMessageReachesBothRooms ==
    \A h \in 1..MaxChatHandlers :
        (h \in Handlers /\ hs[h].kind = "newmsg")
            ~> ( /\ h \in Handlers
                 /\ \/ hs[h].pc = "failed"
                    \/ FannedOutTo(h, hs[h].sender) /\ FannedOutTo(h, hs[h].receiver) )

C8_Witness ==
    \E h \in Handlers :
        /\ hs[h].kind = "newmsg" /\ hs[h].pc = "done"
        /\ hs[h].sender = "A" /\ hs[h].receiver = "B"
        /\ FannedOutTo(h, "A") /\ FannedOutTo(h, "B")
        /\ \A i \in EmittedBy(h) : log[i].rcv # {}

\* C11: a 'seen' whose lookup found no conversation between the requester and
\* the target emits no 'conversation' event and changes no message, and a
\* 'message-page' whose lookup found no conversation emits no 'message'
\* event.
C11_NoConversationNothingEmitted ==
    \A h \in Handlers :
        /\ ( /\ hs[h].kind = "seen" /\ hs[h].conv = 0
             /\ hs[h].pc \in {"update", "sumS", "sumR", "emitConv", "done"} )
              => /\ \A i \in EmittedBy(h) : log[i].ev # "conversation"
                 /\ hs[h].changed = 0
        /\ ( /\ hs[h].kind = "page" /\ hs[h].conv = 0
             /\ hs[h].pc \in {"emit", "done"} )
              => \A i \in EmittedBy(h) : log[i].ev # "message"

\* Message m of handler g stands before the message of handler h in one
\* conversation of their pair.
StoredBefore(g, h) ==
    \E i \in Matching(hs[g].sender, hs[g].receiver) :
        \E p, q \in 1..Len(convs[i].messages) :
            /\ p < q
            /\ convs[i].messages[p] = hs[g].msg
            /\ convs[i].messages[q] = hs[h].msg

\* C12: when one session has sent two 'new message' events for the same
\* pair and both handlers have completed, the message of the first event
\* stands before the message of the second in the conversation's sequence
\* and every 'message' emission of the first precedes those of the second.
C12_SessionEventsInReceiptOrder ==
    \A g, h \in Handlers :
        ( /\ g < h /\ hs[g].c = hs[h].c
          /\ hs[g].kind = "newmsg" /\ hs[h].kind = "newmsg"
          /\ SamePair(g, h)
          /\ hs[g].pc = "done" /\ hs[h].pc = "done" )
            => /\ StoredBefore(g, h)
               /\ \A i \in EmittedBy(g), j \in EmittedBy(h) :
                     (log[i].ev = "message" /\ log[j].ev = "message") => i < j

\* The step is the failure of handler h.
Fails(h) == h \in Handlers /\ hs[h].pc # "failed" /\ hs'[h].pc = "failed"

\* C13: the step in which a store call of an event handler fails changes
\* neither the presence set nor any session's binding, open flag or room, and
\* emits nothing; and a failed handler stays failed and emits nothing more.
C13_FailureIsContained ==
    [][ \A h \in Handlers :
          /\ Fails(h) => /\ onlineUsers' = onlineUsers
                         /\ cstate' = cstate /\ copen' = copen /\ cuser' = cuser
                         /\ rooms' = rooms
                         /\ log' = log
          /\ hs[h].pc = "failed" =>
                /\ hs'[h].pc = "failed"
                /\ \A i \in 1..Len(log') : log'[i].h = h => i \in EmittedBy(h) ]_vars

\* A 'new message' failed after its 'message' fan-out, both sessions are
\* still bound, open and present, and a later event of the failing session
\* was handled to its end.
C13_Witness ==
    \E h, g \in Handlers :
        /\ hs[h].kind = "newmsg" /\ hs[h].pc = "failed" /\ EmittedBy(h) # {}
        /\ \A c \in Conns : cstate[c] = "bound" /\ copen[c]
        /\ Range(onlineUsers) = Users
        /\ g > h /\ hs[g].c = hs[h].c /\ hs[g].pc = "done" /\ EmittedBy(g) # {}

\* The 'message' emissions to a room, and the payload of the latest one.
MessagesTo(id) ==
    {i \in LogIdx : log[i].ev = "message" /\ log[i].kind = "room" /\ log[i].to = id}
LastMessageTo(id) ==
    log[CHOOSE i \in MessagesTo(id) : \A j \in MessagesTo(id) : j <= i].payload
PayloadIds(page) == [k \in 1..Len(page) |-> page[k].id]
StrictPrefix(s, t) == Len(s) < Len(t) /\ s = SubSeq(t, 1, Len(s))

\* Every 'new message' handler started so far has completed without error.
AllSendsCompleted ==
    /\ \E h \in Handlers : hs[h].kind = "newmsg"
    /\ \A h \in Handlers : hs[h].kind = "newmsg" => hs[h].pc = "done"

\* C14: once every 'new message' handler for the pair A-B has completed
\* without store error, the latest 'message' emitted to A's room and the
\* latest one emitted to B's room carry the same payload, that payload is the
\* current message sequence of a conversation of the pair, and no 'message'
\* payload emitted to a room is a strict prefix of one emitted to it earlier.
C14_ParticipantsConverge ==
    AllSendsCompleted =>
        /\ LastMessageTo("A") = LastMessageTo("B")
        /\ \E i \in Matching("A", "B") :
              PayloadIds(LastMessageTo("A")) = convs[i].messages
        /\ \A id \in Users : \A i, j \in MessagesTo(id) :
              i < j => ~StrictPrefix(PayloadIds(log[j].payload), PayloadIds(log[i].payload))

\* The message of handler h is stored and stands in a conversation of its pair.
Persisted(h) ==
    /\ hs[h].msg \in 1..Len(msgs)
    /\ \E i \in Matching(hs[h].sender, hs[h].receiver) :
          hs[h].msg \in Range(convs[i].messages)

\* C15: a handler starts only for an event of an open session, the step that
\* closes a session leaves every handler as it is, and a 'new message'
\* handler in flight when its session is closed still runs on: unless a store
\* call fails, its message is persisted and appended and its fan-out is
\* emitted to the receiver's room.
C15_ClosedIsTerminal ==
    /\ [][ /\ Len(hs') > Len(hs) => copen[hs'[Len(hs')].c]
           /\ (\E c \in Conns : copen[c] /\ ~copen'[c]) => hs' = hs ]_vars
    /\ \A h \in LeaveHandlers :
          (h \in InFlight /\ hs[h].kind = "newmsg" /\ ~copen[hs[h].c])
              ~> ( /\ h \in Handlers
                   /\ \/ hs[h].pc = "failed"
                      \/ Persisted(h) /\ FannedOutTo(h, hs[h].receiver) )

\* A's session was closed before its 'new message' handler emitted anything;
\* the handler is done, the message is in the A-B conversation, and the
\* emissions to B's room reached B's open session while those to A's room
\* reached no one.
C15_Witness ==
    \E h \in Handlers :
        /\ hs[h].kind = "newmsg" /\ hs[h].pc = "done"
        /\ hs[h].sender = "A" /\ hs[h].receiver = "B"
        /\ ~copen[hs[h].c] /\ copen[2]
        /\ \E j \in LogIdx :
              /\ IsLeave(j) /\ log[j].c = hs[h].c
              /\ \A i \in EmittedBy(h) : j < i
        /\ Persisted(h) /\ FannedOutTo(h, "B")
        /\ \A i \in EmittedBy(h) :
              log[i].rcv = IF log[i].to = "B" THEN {2} ELSE {}

\* The 'onlineUser' broadcasts, and whether the log ends with one carrying
\* the given presence set to the given sockets.
PresenceBroadcasts == {i \in LogIdx : log[i].ev = "onlineUser"}
EndsWithBroadcast(lg, online, open) ==
    /\ Len(lg) > 0
    /\ lg[Len(lg)].ev = "onlineUser" /\ lg[Len(lg)].kind = "all"
    /\ lg[Len(lg)].payload = online
    /\ lg[Len(lg)].rcv = AllSockets(open)

\* C16: in every reachable state the latest 'onlineUser' broadcast carries
\* the current presence set (the set is empty when there was none), and every
\* step that binds a session, closes a bound session or changes the presence
\* set appends, in that same step, an 'onlineUser' broadcast of the new set to
\* all connected sockets.
C16_PresenceBroadcastWithChange ==
    /\ [] ( IF PresenceBroadcasts = {} THEN onlineUsers = <<>>
            ELSE \E i \in PresenceBroadcasts :
                    /\ \A j \in PresenceBroadcasts : j <= i
                    /\ log[i].payload = onlineUsers )
    /\ [][ ( \/ onlineUsers' # onlineUsers
             \/ \E c \in Conns : cstate[c] # "bound" /\ cstate'[c] = "bound"
             \/ \E c \in Conns : cstate[c] = "bound" /\ copen[c] /\ ~copen'[c] )
              => /\ Len(log') = Len(log) + 1
                 /\ EndsWithBroadcast(log', onlineUsers', copen') ]_vars

\* A and B were bound and A's session has left: the latest broadcast is the
\* one of the disconnect, carries the set without A and reached B's session.
C16_Witness ==
    /\ onlineUsers = <<"B">>
    /\ EndsWithBroadcast(log, <<"B">>, copen)
    /\ IsLeave(Len(log)) /\ cuser[log[Len(log)].c] = "A"
    /\ log[Len(log)].rcv = {2}

\* The connections that presented the credential of identity id.
ConnsOf(id) == {c \in Conns : cstate[c] # "new" /\ ctoken[c] = id}

\* C17: once every connection of an identity is closed and its connection
\* handler has finished (bound or rejected), the identity is not in the
\* presence set; in particular a connection that closed while its credential
\* check was pending has not left it there.
C17_ClosedDuringAuthNotPresent ==
    \A id \in Users :
        ( /\ ConnsOf(id) # {}
          /\ \A c \in ConnsOf(id) : ~copen[c] /\ cstate[c] \in {"bound", "rejected"} )
            => id \notin Range(onlineUsers)

\* Connection d of identity id disconnected while connection c of the same
\* identity was bound, and c is still open.
LeftBesideOpen(id, c, d) ==
    /\ c # d /\ cuser[c] = id /\ cuser[d] = id
    /\ cstate[c] = "bound" /\ copen[c]
    /\ cstate[d] = "bound" /\ ~copen[d]
    /\ \E i \in PresenceBy(c), j \in PresenceBy(d) : i < j /\ IsLeave(j)

\* C18: when one of two bound connections of an identity has disconnected
\* and the other is still open, the identity is in the presence set and in
\* the latest 'onlineUser' broadcast (so 'message-page', which reads the
\* set, reports it online).
C18_OtherConnectionKeepsPresence ==
    \A id \in Users : \A c, d \in Conns :
        LeftBesideOpen(id, c, d) =>
            /\ id \in Range(onlineUsers)
            /\ \E i \in PresenceBroadcasts :
                  /\ \A j \in PresenceBroadcasts : j <= i
                  /\ id \in Range(log[i].payload)

\* Identity id is a participant of conversation i.
ParticipantOf(id, i) == i \in 1..Len(convs) /\ id \in {convs[i].sender, convs[i].receiver}

\* Every item of emission i belongs to a conversation of identity id: a
\* summary names such a conversation, a message stands in one.
OwnPayload(i, id) ==
    \A k \in 1..Len(log[i].payload) :
        IF log[i].ev = "conversation"
        THEN ParticipantOf(id, log[i].payload[k].conv)
        ELSE \E j \in 1..Len(convs) :
                 /\ ParticipantOf(id, j)
                 /\ log[i].payload[k].id \in Range(convs[j].messages)

\* C19: every 'conversation' and 'message' emission delivered to a bound
\* session carries only summaries and messages of conversations in which the
\* session's authenticated identity is a participant, whatever events the
\* session sent ('sidebar' with any identity id included).
C19_OnlyOwnConversationsDelivered ==
    \A i \in LogIdx :
        log[i].ev \in {"conversation", "message"} =>
            \A c \in log[i].rcv : OwnPayload(i, cuser[c])

PrefixOf(s, t) == Len(s) <= Len(t) /\ s = SubSeq(t, 1, Len(s))

\* C20: in every step each existing conversation keeps its participants and
\* its message sequence is a prefix of the new one, no conversation and no
\* message disappears, a message keeps its author, and a seen flag that is
\* true stays true.
C20_DurableStateOnlyGrows ==
    [][ /\ Len(convs') >= Len(convs)
        /\ \A i \in 1..Len(convs) :
              /\ convs'[i].sender = convs[i].sender
              /\ convs'[i].receiver = convs[i].receiver
              /\ PrefixOf(convs[i].messages, convs'[i].messages)
        /\ Len(msgs') >= Len(msgs)
        /\ \A k \in 1..Len(msgs) :
              /\ msgs'[k].by = msgs[k].by
              /\ msgs[k].seen => msgs'[k].seen ]_vars

\* After A has seen B's message of the A-B conversation, a further message was
\* appended behind it: the earlier ones kept their places and the flag.
C20_Witness ==
    /\ Len(convs) = 2 /\ Len(msgs) = 4
    /\ \E i \in Matching("A", "B") : convs[i].messages = <<1, 2, 4>>
    /\ msgs[2].by = "B" /\ msgs[2].seen
    /\ ~msgs[4].seen
====
